---- MODULE Spec2Model ----
(***************************************************************************)
(* Model of the workspace tools of the Codebase Analyzer extension:        *)
(*   - read_file_structure: the directory scanner with its pattern filter  *)
(*     (src/src/tools/readFileTool.ts, first variant, lines 1-362);        *)
(*   - read_file_code: the batch file reader                               *)
(*     (src/src/tools/readFileCodeTool.ts).                                *)
(* Paths, names and patterns are strings; TLC evaluates Len, SubSeq and \o *)
(* on strings, so the string operations of the source are computed         *)
(* character by character as the code computes them.                       *)
(***************************************************************************)
EXTENDS Integers, Sequences, FiniteSets, TLC

(***************************************************************************)
(* Bounds of the model.                                                    *)
(***************************************************************************)
\* maxFiles ranges over -1..MaxCap
MaxCap == 7
\* a read_file_code request holds 1..MaxPaths paths
MaxPaths == 2
\* maxFileSize ranges over 0..MaxKB (KB)
MaxKB == 1

(***************************************************************************)
(* String primitives of JavaScript used by the source.                     *)
(***************************************************************************)
CharAt(s, i) == SubSeq(s, i, i)

\* const v = value; body(v): the value is computed once, where it is declared
Bind(value, body(_)) == CHOOSE r \in { body(v) : v \in {value} } : TRUE

StartsWith(s, p) == Len(p) <= Len(s) /\ SubSeq(s, 1, Len(p)) = p

EndsWith(s, p) == Len(p) <= Len(s) /\ SubSeq(s, Len(s) - Len(p) + 1, Len(s)) = p

Includes(s, p) == \E i \in 0..(Len(s) - Len(p)) : SubSeq(s, i + 1, i + Len(p)) = p

\* String.prototype.trim over the blank character of the model's alphabet
RECURSIVE Trim(_)
Trim(s) ==
    IF s = "" THEN s
    ELSE IF CharAt(s, 1) = " " THEN Trim(SubSeq(s, 2, Len(s)))
    ELSE IF CharAt(s, Len(s)) = " " THEN Trim(SubSeq(s, 1, Len(s) - 1))
    ELSE s

\* Array.prototype.slice(0, n)
Slice0(seq, n) ==
    IF n >= 0 THEN SubSeq(seq, 1, IF n < Len(seq) THEN n ELSE Len(seq))
    ELSE SubSeq(seq, 1, IF Len(seq) + n > 0 THEN Len(seq) + n ELSE 0)

(***************************************************************************)
(* The regular expressions the filter builds.  A pattern is turned into a  *)
(* regular expression by escaping ".", replacing "*" by ".*" and (in       *)
(* ignore-file mode) "?" by "."; every other character of the model's      *)
(* alphabet stands for itself.  RegexFull(p, s, q) is a full match of s    *)
(* by the expression built from p, q telling whether "?" was replaced.     *)
(***************************************************************************)
RECURSIVE RegexFull(_, _, _)
RegexFull(p, s, q) ==
    IF p = "" THEN s = ""
    ELSE IF CharAt(p, 1) = "*"
         THEN \E k \in 0..Len(s) :
                 \E pRest \in {SubSeq(p, 2, Len(p))}, sRest \in {SubSeq(s, k + 1, Len(s))} :
                     RegexFull(pRest, sRest, q)
         ELSE /\ s # ""
              /\ \/ q /\ CharAt(p, 1) = "?"
                 \/ CharAt(p, 1) = CharAt(s, 1)
              /\ \E pRest \in {SubSeq(p, 2, Len(p))}, sRest \in {SubSeq(s, 2, Len(s))} :
                     RegexFull(pRest, sRest, q)

\* new RegExp(`(^|/)${regexPattern}($|/)`).test(s)
RegexTestAnchored(p, s) ==
    \E i \in 1..(Len(s) + 1) : \E j \in (i - 1)..Len(s) :
        /\ i = 1 \/ CharAt(s, i - 1) = "/"
        /\ j = Len(s) \/ CharAt(s, j + 1) = "/"
        /\ RegexFull(p, SubSeq(s, i, j), TRUE)

\* new RegExp(regexPattern).test(s)
RegexTest(p, s) ==
    \E i \in 1..(Len(s) + 1) : \E j \in (i - 1)..Len(s) :
        RegexFull(p, SubSeq(s, i, j), FALSE)

(***************************************************************************)
(* Pattern filter (readFileTool.ts).                                       *)
(***************************************************************************)
\* filePath.replace(/\\/g, "/")
RECURSIVE NormalizeSeparators(_)
NormalizeSeparators(s) ==
    IF s = "" THEN s
    ELSE (IF CharAt(s, 1) = "\\" THEN "/" ELSE CharAt(s, 1))
             \o Bind(SubSeq(s, 2, Len(s)), LAMBDA rest : NormalizeSeparators(rest))

\* the lines of the ignore file that are kept as patterns: trimmed, not
\* empty, not a comment
ParsePatterns(lines) ==
    SelectSeq([i \in 1..Len(lines) |-> Trim(lines[i])],
              LAMBDA line : line # "" /\ ~StartsWith(line, "#"))

matchSinglePattern(filePath, fileName, pattern0) ==
    LET pattern == IF StartsWith(pattern0, "/")
                   THEN SubSeq(pattern0, 2, Len(pattern0)) ELSE pattern0
    IN  IF EndsWith(pattern, "/")
        THEN LET dirPattern == SubSeq(pattern, 1, Len(pattern) - 1)
             IN  \/ Includes(filePath, dirPattern \o "/")
                 \/ filePath = dirPattern
                 \/ fileName = dirPattern
        ELSE IF Includes(pattern, "*")
        THEN RegexTestAnchored(pattern, filePath) \/ RegexTestAnchored(pattern, fileName)
        ELSE \/ Includes(filePath, pattern)
             \/ fileName = pattern
             \/ EndsWith(filePath, "/" \o pattern)
             \/ StartsWith(filePath, pattern \o "/")

\* the loop of matchesGitignorePattern from pattern number i on
RECURSIVE MatchFrom(_, _, _, _)
MatchFrom(normalizedPath, fileName, patterns, i) ==
    IF i > Len(patterns) THEN FALSE
    ELSE IF patterns[i] = "" THEN MatchFrom(normalizedPath, fileName, patterns, i + 1)
    ELSE IF StartsWith(patterns[i], "!")
         THEN IF matchSinglePattern(normalizedPath, fileName,
                                    SubSeq(patterns[i], 2, Len(patterns[i])))
              THEN FALSE
              ELSE MatchFrom(normalizedPath, fileName, patterns, i + 1)
    ELSE IF matchSinglePattern(normalizedPath, fileName, patterns[i]) THEN TRUE
    ELSE MatchFrom(normalizedPath, fileName, patterns, i + 1)

matchesGitignorePattern(filePath, fileName, patterns) ==
    \E normalizedPath \in {NormalizeSeparators(filePath)} :
        MatchFrom(normalizedPath, fileName, patterns, 1)

predefinedPatterns ==
    << "node_modules", ".git", ".vscode", "dist", "build", "coverage", ".next",
       ".nuxt", "target", "bin", "obj", ".DS_Store", "Thumbs.db", ".env",
       "public", "*.log", "*.tmp", "*.temp", ".cache", ".parcel-cache",
       "vendor", "__pycache__", ".pytest_cache", ".mypy_cache" >>

\* name.match(/^\.(env|gitignore|eslintrc|prettierrc|editorconfig)/)
AllowedDotfile(name) ==
    \E pre \in {".env", ".gitignore", ".eslintrc", ".prettierrc", ".editorconfig"} :
        StartsWith(name, pre)

\* a built-in branch that compares whole paths instead of searching in them
PredefinedSkipWholePath(name, relativePath, patterns) ==
    \/ \E i \in 1..Len(patterns) :
          IF Includes(patterns[i], "*")
          THEN RegexTest(patterns[i], name) \/ RegexTest(patterns[i], relativePath)
          ELSE relativePath = patterns[i]
    \/ StartsWith(name, ".") /\ ~AllowedDotfile(name)

\* the built-in branch of shouldSkipFile
PredefinedSkip(name, relativePath, patterns) ==
    \/ \E i \in 1..Len(patterns) :
          IF Includes(patterns[i], "*")
          THEN RegexTest(patterns[i], name) \/ RegexTest(patterns[i], relativePath)
          ELSE Includes(name, patterns[i]) \/ Includes(relativePath, patterns[i])
    \/ StartsWith(name, ".") /\ ~AllowedDotfile(name)

\* shouldSkipFile once getSkipPatterns has answered with (patterns, usingGitignore)
SkipDecision(name, relativePath, patterns, usingGitignore) ==
    IF usingGitignore
    THEN matchesGitignorePattern(relativePath, name, patterns)
    ELSE PredefinedSkip(name, relativePath, patterns)

(***************************************************************************)
(* The file system the tools work on.  A file system is a sequence of      *)
(* nodes; node number n has a name, the number of its parent directory (0  *)
(* is the file-system root "/"), a type as vscode.FileType reports it, the *)
(* UTF-8 length of its content (files) and whether listing it succeeds     *)
(* (directories).  A directory lists its children by ascending number.     *)
(***************************************************************************)
Node(name, parent, type, bytes, listable) ==
    [name |-> name, parent |-> parent, type |-> type, bytes |-> bytes,
     listable |-> listable]

File(name, parent, bytes) == Node(name, parent, "file", bytes, FALSE)
Dir(name, parent) == Node(name, parent, "directory", 0, TRUE)

\* the folder the editor has open: workspaceFolders[0].uri.fsPath
rootPath == "/w"

\* a workspace whose ignore file excludes build/ and re-includes one file
WsIgnore ==
    [nodes |-> << Dir("w", 0),
                  File(".gitignore", 1, 40),
                  Dir("build", 1),
                  File("keep.txt", 3, 10),
                  File("out.js", 3, 10),
                  Dir("src", 1),
                  File("a.ts", 6, 1024),
                  Dir("node_modules", 1),
                  File("m.js", 8, 10),
                  File("x", 0, 10) >>,
     ignore |-> << "# build output", "build/ ", "!build/keep.txt", "" >>]

\* a workspace without ignore file
WsPlain ==
    [nodes |-> << Dir("w", 0),
                  Dir("node_modules", 1),
                  File("x.js", 2, 10),
                  Dir("src", 1),
                  Dir("node_modules", 4),
                  File("y.js", 5, 10),
                  File("b.ts", 4, 1025),
                  File("a.ts", 1, 1024),
                  Dir("lib", 1),
                  File("a.ts", 9, 2049),
                  Node("link", 1, "symlink", 0, FALSE),
                  Node("locked", 1, "directory", 0, FALSE),
                  File("z.ts", 12, 10),
                  File("x", 0, 10),
                  Dir("w2", 0),
                  File("s", 15, 10) >>,
     ignore |-> << >>]

\* a workspace whose ignore file holds no pattern
WsEmptyIgnore ==
    [nodes |-> << Dir("w", 0),
                  File(".gitignore", 1, 10),
                  Dir("docs", 1),
                  Dir("node_modules", 3),
                  File("i.js", 4, 10),
                  File("b.md", 3, 10),
                  File("a.ts", 1, 10) >>,
     ignore |-> << "# nothing ignored", " " >>]

\* a workspace without ignore file whose first directory cannot be listed,
\* with a hidden file and nested directories after it
WsLocked ==
    [nodes |-> << Dir("w", 0),
                  Node("locked", 1, "directory", 0, FALSE),
                  File("z.ts", 2, 10),
                  File("after.ts", 1, 10),
                  File(".npmrc", 1, 10),
                  Dir("deep", 1),
                  Dir("inner", 6),
                  File("c.ts", 7, 10),
                  File("d.ts", 6, 10),
                  File(".env", 1, 10) >>,
     ignore |-> << >>]

\* the workspace with ignore file after its ignore file was rewritten
WsIgnoreRewritten == [WsIgnore EXCEPT !.ignore = << "src/" >>]

\* a repository: a workspace under version control whose ignore file does
\* not name the metadata directory
WsRepo ==
    [nodes |-> << Dir("w", 0),
                  Dir(".git", 1),
                  File("config", 2, 10),
                  File(".gitignore", 1, 10),
                  File("a.ts", 1, 10) >>,
     ignore |-> << "dist/" >>]

Workspaces == << WsIgnore, WsPlain, WsEmptyIgnore, WsLocked, WsIgnoreRewritten, WsRepo >>

\* s.split("/")
RECURSIVE SplitFrom(_, _, _)
SplitFrom(s, i, cur) ==
    IF i > Len(s) THEN << cur >>
    ELSE IF CharAt(s, i) = "/" THEN << cur >> \o SplitFrom(s, i + 1, "")
    ELSE SplitFrom(s, i + 1, cur \o CharAt(s, i))

Split(s) == SplitFrom(s, 1, "")

\* the segments of a path with "", "." and ".." resolved (a ".." at the
\* root stays at the root), as path.resolve and the operating system do
RECURSIVE NormalizeSegments(_, _)
NormalizeSegments(segs, acc) ==
    IF segs = << >> THEN acc
    ELSE IF Head(segs) \in {"", "."} THEN NormalizeSegments(Tail(segs), acc)
    ELSE IF Head(segs) = ".."
         THEN NormalizeSegments(Tail(segs),
                                IF acc = << >> THEN acc ELSE SubSeq(acc, 1, Len(acc) - 1))
    ELSE NormalizeSegments(Tail(segs), Append(acc, Head(segs)))

RECURSIVE JoinSegments(_)
JoinSegments(segs) ==
    IF segs = << >> THEN "" ELSE "/" \o Head(segs) \o JoinSegments(Tail(segs))

\* the absolute path without "." and ".." that names the same place
Canonical(absPath) ==
    LET segs == NormalizeSegments(Split(absPath), << >>)
    IN  IF segs = << >> THEN "/" ELSE JoinSegments(segs)

pathIsAbsolute(p) == StartsWith(p, "/")

\* path.resolve(from, to)
pathResolve(from, to) ==
    IF pathIsAbsolute(to) THEN Canonical(to) ELSE Canonical(from \o "/" \o to)

\* path.join(dirPath, name)
pathJoin(dirPath, name) == Canonical(dirPath \o "/" \o name)

\* path.relative(from, to) for a path `to` at or below `from`
pathRelative(from, to) ==
    IF to = from THEN ""
    ELSE IF StartsWith(to, from \o "/") THEN SubSeq(to, Len(from) + 2, Len(to))
    ELSE to

\* the node a directory holds under a name, 0 if none
ChildOf(nodes, dir, name) ==
    IF \E n \in 1..Len(nodes) : nodes[n].parent = dir /\ nodes[n].name = name
    THEN CHOOSE n \in 1..Len(nodes) : nodes[n].parent = dir /\ nodes[n].name = name
    ELSE 0

\* the node reached from directory `cur` along the segments, -1 if none
RECURSIVE Walk(_, _, _)
Walk(nodes, segs, cur) ==
    IF segs = << >> THEN cur
    ELSE IF cur # 0 /\ nodes[cur].type # "directory" THEN -1
    ELSE Bind(ChildOf(nodes, cur, Head(segs)), LAMBDA c :
              IF c = 0 THEN -1 ELSE Walk(nodes, Tail(segs), c))

\* the node an absolute path names: what vscode.Uri.file(path) addresses
NodeAt(nodes, absPath) ==
    Bind(NormalizeSegments(Split(absPath), << >>), LAMBDA segs : Walk(nodes, segs, 0))

\* whether workspace.fs.readDirectory(dirPath) answers instead of throwing
CanList(nodes, dirPath) ==
    LET n == NodeAt(nodes, dirPath)
    IN  n > 0 /\ nodes[n].type = "directory" /\ nodes[n].listable

\* a listing that answers with the entries in the opposite order
readDirectoryBackwards(nodes, dirPath) ==
    LET d == NodeAt(nodes, dirPath)
        listed == SelectSeq([n \in 1..Len(nodes) |-> n], LAMBDA n : nodes[n].parent = d)
    IN  [i \in 1..Len(listed) |-> listed[Len(listed) + 1 - i]]

\* the entries workspace.fs.readDirectory(dirPath) answers with
readDirectory(nodes, dirPath) ==
    LET d == NodeAt(nodes, dirPath)
    IN  SelectSeq([n \in 1..Len(nodes) |-> n], LAMBDA n : nodes[n].parent = d)

\* parseGitignoreFile: the patterns of <root>/.gitignore, none if it cannot be read
parseGitignoreFile(w, workspaceRoot) ==
    Bind(pathJoin(workspaceRoot, ".gitignore"), LAMBDA gitignorePath :
         Bind(NodeAt(w.nodes, gitignorePath), LAMBDA n :
              IF n > 0 /\ w.nodes[n].type = "file" THEN ParsePatterns(w.ignore) ELSE << >>))

(***************************************************************************)
(* Ordering of the scan result.                                            *)
(***************************************************************************)
\* the collation order of the characters names are made of (punctuation,
\* digits, lower-case letters)
Alphabet == "_-.0123456789abcdefghijklmnopqrstuvwxyz"

CharRank(c) ==
    IF \E i \in 1..Len(Alphabet) : CharAt(Alphabet, i) = c
    THEN CHOOSE i \in 1..Len(Alphabet) : CharAt(Alphabet, i) = c
    ELSE 0

\* a.localeCompare(b): -1, 0 or 1
RECURSIVE localeCompare(_, _)
localeCompare(a, b) ==
    IF a = "" /\ b = "" THEN 0
    ELSE IF a = "" THEN -1
    ELSE IF b = "" THEN 1
    ELSE IF CharRank(CharAt(a, 1)) < CharRank(CharAt(b, 1)) THEN -1
    ELSE IF CharRank(CharAt(a, 1)) > CharRank(CharAt(b, 1)) THEN 1
    ELSE Bind(SubSeq(a, 2, Len(a)), LAMBDA aRest :
              Bind(SubSeq(b, 2, Len(b)), LAMBDA bRest : localeCompare(aRest, bRest)))

\* a comparator that forgets the entry type
CompareByNameOnly(a, b) == localeCompare(a.name, b.name)

\* the comparator handed to sort: negative, zero or positive
CompareEntries(a, b) ==
    IF a.type # b.type
    THEN (IF a.type = "directory" THEN -1 ELSE 1)
    ELSE localeCompare(a.name, b.name)

\* Array.prototype.sort is stable: an entry goes before the first entry
\* that the comparator puts after it
RECURSIVE InsertSorted(_, _)
InsertSorted(sorted, e) ==
    IF sorted = << >> THEN << e >>
    ELSE IF CompareEntries(e, Head(sorted)) < 0 THEN << e >> \o sorted
    ELSE << Head(sorted) >> \o InsertSorted(Tail(sorted), e)

RECURSIVE SortEntries(_)
SortEntries(entries) ==
    IF entries = << >> THEN << >>
    ELSE Bind(SubSeq(entries, 1, Len(entries) - 1), LAMBDA front :
              Bind(SortEntries(front), LAMBDA sorted :
                   InsertSorted(sorted, entries[Len(entries)])))

\* path.extname(name)
extname(name) ==
    LET dots == {i \in 2..Len(name) : CharAt(name, i) = "."}
    IN  IF dots = {} THEN ""
        ELSE SubSeq(name, CHOOSE i \in dots : \A j \in dots : j <= i, Len(name))

(***************************************************************************)
(* State.                                                                  *)
(***************************************************************************)
VARIABLES
    ws,                 \* the workspace on disk: an index of Workspaces
    wsOpen,             \* whether vscode.workspace.workspaceFolders holds a folder
    gitignorePatterns,  \* module-level cache: Null or Some(patterns)
    useGitignore,       \* module-level flag
    scanPc,             \* read_file_structure: "idle", "running" or "done"
    includeHidden,      \* argument of the running read_file_structure call
    maxFiles,           \* argument of the running read_file_structure call
    files,              \* the accumulator of getWorkspaceStructure
    stack,              \* the scanDirectory calls in progress, innermost last
    scanResult,         \* what the last read_file_structure call returned
    rulesUsed,          \* history: the rule sets the filter decisions of the
                        \* running call were made with
    ignoreReads,        \* history: how often the running call read the ignore file
    listings,           \* history: how many directory listings the running
                        \* call asked for
    otherPc             \* a second read_file_structure call that runs while
                        \* the first is at an await, seen through the
                        \* module-level state it writes: "idle", "running", "done"

scanVars == << gitignorePatterns, useGitignore, scanPc, includeHidden, maxFiles,
               files, stack, scanResult, rulesUsed, ignoreReads, listings,
               otherPc >>

\* state of read_file_code
VARIABLES
    readPc,        \* read_file_code: "idle", "running" or "done"
    filePaths,     \* argument of the running read_file_code call
    maxFileSize,   \* argument of the running read_file_code call, in KB
    jobs,          \* one processFile call per requested path, in request order:
                   \* its position, its resolved path, the content it read
                   \* (the node read, 0 if none), what the file system
                   \* answered to it so far, and its result
    settled,       \* the processFile calls that have returned, in the order
                   \* in which they returned
    batch,         \* what processMultipleFiles answered to the tool function
    readResult     \* what the read_file_code call returned

readVars == << readPc, filePaths, maxFileSize, jobs, settled, batch, readResult >>

\* state of the API key (config.ts) and of the handlers that set it
VARIABLES
    envKey,         \* DEFAULT_API_KEY: the trimmed OPENAI_API_KEY of the process, "" if none
    cachedApiKey,   \* _cachedApiKey, "" for undefined
    secret,         \* SecretStorage under SECRET_KEY_NAME, "" for none
    keyPc,          \* "off" before activation; "idle"; or the await a
                    \* getOpenAIApiKey call is at: "secret", "prompt", "store";
                    \* or "choice", the question activate asks
    keyCaller,      \* who called getOpenAIApiKey: "command", "activate",
                    \* "validate" (validateApiKey in activate), "retry";
                    \* once idle, the handler that ran last
    wanted,         \* what the user who ran the command has to type
    pending         \* the trimmed input on its way into SecretStorage

keyVars == << envKey, cachedApiKey, secret, keyPc, keyCaller, wanted, pending >>

\* one call of shouldSkipFile on its own
VARIABLES
    rules,     \* the patterns getSkipPatterns answers, from an ignore file
    entry,     \* the entry asked about: its name, its relative path and what
               \* the directory listing said it is
    verdict    \* "none" before the call, then what shouldSkipFile returned:
               \* "skip" for true, "keep" for false

filterVars == << rules, entry, verdict >>

\* state of the chat view
VARIABLES
    view,       \* whether resolveWebviewView has run: chatbotState.view is set
                \* and the message listener is registered
    messages,   \* chatbotState.messages; each message with the number of the
                \* handleUserMessage call that pushed it
    calls,      \* the handleUserMessage calls that went past the blank test,
                \* in the order in which they started: the message, and where
                \* the call is ("await" in getAIResponse, or "done")
    posted,     \* the types of the messages posted to the webview so far
    received,   \* the sendMessage texts the listener was handed so far
    clears      \* how often the chat was cleared so far

chatVars == << view, messages, calls, posted, received, clears >>

envVars == << ws, wsOpen >>

notScanVars == << envVars, readVars, keyVars, filterVars, chatVars >>
notReadVars == << envVars, scanVars, keyVars, filterVars, chatVars >>
notKeyVars == << envVars, scanVars, readVars, filterVars, chatVars >>
notFilterVars == << envVars, scanVars, readVars, keyVars, chatVars >>
notChatVars == << envVars, scanVars, readVars, keyVars, filterVars >>

Null == << >>
Some(v) == << v >>

NoResult == [success |-> FALSE, error |-> "none"]

NoWorkspaceError == "No workspace folder is open"

\* a scanDirectory call that awaits its directory listing
ListFrame(dirPath) == [dirPath |-> dirPath, entries |-> << >>, idx |-> 1, phase |-> "list"]

Top == stack[Len(stack)]
Pop == SubSeq(stack, 1, Len(stack) - 1)

ScanInit ==
    /\ gitignorePatterns = Null
    /\ useGitignore = FALSE
    /\ scanPc = "idle"
    /\ includeHidden = FALSE
    /\ maxFiles = 0
    /\ files = << >>
    /\ stack = << >>
    /\ scanResult = NoResult
    /\ rulesUsed = {}
    /\ ignoreReads = 0
    /\ listings = 0
    /\ otherPc = "idle"

(***************************************************************************)
(* read_file_structure.                                                    *)
(***************************************************************************)
\* getSkipPatterns: the answer and the cache it leaves
getSkipPatterns(w, workspaceRoot, cache, flag) ==
    IF cache # Null
    THEN [patterns |-> cache[1], useGitignore |-> flag, cache |-> cache, flag |-> flag]
    ELSE LET parsed == parseGitignoreFile(w, workspaceRoot)
         IN  IF Len(parsed) > 0
             THEN [patterns |-> parsed, useGitignore |-> TRUE,
                   cache |-> Some(parsed), flag |-> TRUE]
             ELSE [patterns |-> predefinedPatterns, useGitignore |-> FALSE,
                   cache |-> Some(predefinedPatterns), flag |-> FALSE]

\* a tool function without its catch: the error leaves the call
ToolThrows(error) == [thrown |-> error]

\* the catch of the tool function: the error becomes a failed result
ToolFailure(error) == [success |-> FALSE, error |-> error]

\* a cap test that lets one entry more through
CapReachedLate(acc, cap) == Len(acc) >= cap + 1

\* a cap test that stops one entry early
CapReachedEarly(acc, cap) == Len(acc) + 1 >= cap

\* files.length >= maxFiles
CapReached(acc, cap) == Len(acc) >= cap

\* the tool function up to its first await: getWorkspaceStructure checks the
\* workspace, resets the cache and calls scanDirectory on the root
ReadFileStructure(hidden, n) ==
    /\ scanPc \in {"idle", "done"}
    /\ includeHidden' = hidden
    /\ maxFiles' = n
    /\ IF ~wsOpen
       THEN /\ scanResult' = ToolFailure(NoWorkspaceError)
            /\ scanPc' = "done"
            /\ UNCHANGED << gitignorePatterns, files, stack, rulesUsed, ignoreReads,
                            listings >>
       ELSE /\ gitignorePatterns' = Null
            /\ files' = << >>
            /\ stack' = IF CapReached(<< >>, n) THEN << >> ELSE << ListFrame(rootPath) >>
            /\ scanResult' = NoResult
            /\ scanPc' = "running"
            /\ rulesUsed' = {}
            /\ ignoreReads' = 0
            /\ listings' = 0
    /\ UNCHANGED << useGitignore, otherPc, notScanVars >>

\* a type test that takes a symbolic link for a directory
IsDirectoryOrLink(type) == type \in {"directory", "symlink"}

\* type === vscode.FileType.Directory
IsDirectory(type) == type = "directory"

\* a failed listing that ends every scanDirectory call in progress
ListingFailedEndsAll(frames) == << >>

\* the catch of scanDirectory: the call whose listing failed ends, its
\* callers go on
ListingFailed(frames) == SubSeq(frames, 1, Len(frames) - 1)

\* workspace.fs.readDirectory answers or throws; a throw ends this scanDirectory
ListDirectory ==
    /\ scanPc = "running"
    /\ stack # << >>
    /\ Top.phase = "list"
    /\ stack' = IF CanList(Workspaces[ws].nodes, Top.dirPath)
                THEN Append(Pop, [Top EXCEPT
                                     !.entries = readDirectory(Workspaces[ws].nodes,
                                                               Top.dirPath),
                                     !.phase = "loop"])
                ELSE ListingFailed(stack)
    /\ listings' = listings + 1
    /\ UNCHANGED << gitignorePatterns, useGitignore, scanPc, includeHidden, maxFiles,
                    files, scanResult, rulesUsed, ignoreReads, otherPc, notScanVars >>

\* one turn of the loop over the entries of a directory
ScanEntry ==
    /\ scanPc = "running"
    /\ stack # << >>
    /\ Top.phase = "loop"
    /\ Top.idx <= Len(Top.entries)
    /\ ~CapReached(files, maxFiles)
    /\ \E w \in {Workspaces[ws]} :
       \E node \in {w.nodes[Top.entries[Top.idx]]} :
       \E name \in {node.name} :
       \E fullPath \in {pathJoin(Top.dirPath, name)} :
       \E relativePath \in {pathRelative(rootPath, fullPath)} :
       \E got \in {getSkipPatterns(w, rootPath, gitignorePatterns, useGitignore)} :
       \E skip \in {SkipDecision(name, relativePath, got.patterns, got.useGitignore)} :
       \E next \in {Append(Pop, [Top EXCEPT !.idx = Top.idx + 1])} :
           /\ gitignorePatterns' = got.cache
           /\ useGitignore' = got.flag
           /\ rulesUsed' = rulesUsed \cup { [patterns |-> got.patterns,
                                              useGitignore |-> got.useGitignore] }
           /\ ignoreReads' = IF gitignorePatterns = Null
                             THEN ignoreReads + 1
                             ELSE ignoreReads
           /\ IF skip
              THEN /\ files' = files
                   /\ stack' = next
              ELSE IF node.type = "file"
              THEN /\ files' = Append(files, [name |-> name,
                                              relativePath |-> relativePath,
                                              type |-> "file",
                                              extension |-> extname(name)])
                   /\ stack' = next
              ELSE IF IsDirectory(node.type)
              THEN /\ files' = Append(files, [name |-> name,
                                              relativePath |-> relativePath,
                                              type |-> "directory",
                                              extension |-> ""])
                   /\ stack' = IF CapReached(files', maxFiles)
                               THEN next
                               ELSE Append(next, ListFrame(fullPath))
              ELSE /\ files' = files
                   /\ stack' = next
    /\ UNCHANGED << scanPc, includeHidden, maxFiles, scanResult, listings, otherPc,
                    notScanVars >>

\* the loop of a scanDirectory call ends: no entry left, or the cap is reached
ScanDirectoryReturn ==
    /\ scanPc = "running"
    /\ stack # << >>
    /\ Top.phase = "loop"
    /\ Top.idx > Len(Top.entries) \/ CapReached(files, maxFiles)
    /\ stack' = Pop
    /\ UNCHANGED << gitignorePatterns, useGitignore, scanPc, includeHidden, maxFiles,
                    files, scanResult, rulesUsed, ignoreReads, listings, otherPc, notScanVars >>

\* getWorkspaceStructure cuts and sorts the accumulator; the tool function
\* builds its result
ScanReturn ==
    /\ scanPc = "running"
    /\ stack = << >>
    /\ LET sorted == SortEntries(Slice0(files, maxFiles))
       IN  scanResult' = [success |-> TRUE,
                          fileCount |-> Len(sorted),
                          files |-> sorted,
                          usingGitignore |-> useGitignore]
    /\ scanPc' = "done"
    /\ UNCHANGED << gitignorePatterns, useGitignore, includeHidden, maxFiles, files,
                    stack, rulesUsed, ignoreReads, listings, otherPc, notScanVars >>

(***************************************************************************)
(* Two read_file_structure calls at once.  The tool function is async: a   *)
(* second call may start while the first is at an await.  The second call  *)
(* has an accumulator of its own; what the first can see of it is what it  *)
(* writes to the module-level cache.                                       *)
(***************************************************************************)
\* the second call starts: getWorkspaceStructure resets the cache
OtherScanStarts ==
    /\ scanPc = "running"
    /\ otherPc = "idle"
    /\ wsOpen
    /\ gitignorePatterns' = Null
    /\ otherPc' = "running"
    /\ UNCHANGED << useGitignore, scanPc, includeHidden, maxFiles, files, stack,
                    scanResult, rulesUsed, ignoreReads, listings,
                    notScanVars >>

\* a shouldSkipFile of the second call finds the cache empty: its
\* getSkipPatterns reads the ignore file and fills the cache
OtherScanEntry ==
    /\ otherPc = "running"
    /\ gitignorePatterns = Null
    /\ LET got == getSkipPatterns(Workspaces[ws], rootPath, gitignorePatterns,
                                  useGitignore)
       IN  /\ gitignorePatterns' = got.cache
           /\ useGitignore' = got.flag
    /\ UNCHANGED << scanPc, includeHidden, maxFiles, files, stack, scanResult,
                    rulesUsed, ignoreReads, listings, otherPc, notScanVars >>

\* the second call returns
OtherScanReturns ==
    /\ otherPc = "running"
    /\ otherPc' = "done"
    /\ UNCHANGED << gitignorePatterns, useGitignore, scanPc, includeHidden, maxFiles,
                    files, stack, scanResult, rulesUsed, ignoreReads,
                    listings, notScanVars >>

\* somebody rewrites the ignore file of the workspace; the tree stays
IgnoreFileChanges ==
    /\ \E v \in 1..Len(Workspaces) :
          /\ v # ws
          /\ Workspaces[v].nodes = Workspaces[ws].nodes
          /\ ws' = v
    /\ UNCHANGED << wsOpen, scanVars, readVars, keyVars, filterVars, chatVars >>

(***************************************************************************)
(* read_file_code (readFileCodeTool.ts).                                   *)
(***************************************************************************)
\* the most paths one call may name
MaxFilesPerCall == 10

BytesPerKB == 1024

\* the paths requests are made of
PathPool == << "a.ts", "src/b.ts", "lib/a.ts", "nope.ts", "src", "/x", "../x", "/w2/s" >>

RECURSIVE SeqsOfLen(_, _)
SeqsOfLen(S, n) ==
    IF n = 0 THEN { << >> }
    ELSE { Append(q, x) : q \in SeqsOfLen(S, n - 1), x \in S }

\* the requests of the model: every list of 0..MaxPaths pool paths, and one
\* list that is longer than a call may be
Requests ==
    UNION { SeqsOfLen({ PathPool[i] : i \in 1..Len(PathPool) }, n) : n \in 0..MaxPaths }
        \cup { [i \in 1..(MaxFilesPerCall + 1) |-> "a.ts"] }

NoBatch == [successfulReads |-> << >>, failedReads |-> << >>, totalFiles |-> 0]

ReadInit ==
    /\ readPc = "idle"
    /\ filePaths = << >>
    /\ maxFileSize = 0
    /\ jobs = << >>
    /\ settled = << >>
    /\ batch = NoBatch
    /\ readResult = NoResult

\* a resolution against the working directory of the process and not the
\* workspace root
resolveFilePathFromCwd(filePath, workspaceRoot) == pathResolve("/", filePath)

\* getWorkspaceRoot throws without an open folder
resolveFilePath(filePath, workspaceRoot) ==
    IF pathIsAbsolute(filePath) /\ StartsWith(filePath, workspaceRoot)
    THEN filePath
    ELSE pathResolve(workspaceRoot, filePath)

\* fileExists: stat answers with the type File
fileExists(nodes, resolvedPath) ==
    LET n == NodeAt(nodes, resolvedPath)
    IN  n > 0 /\ nodes[n].type = "file"

Failure(filePath, error) == [success |-> FALSE, filePath |-> filePath, error |-> error]

\* processFile up to its first await
StartJob(filePath) ==
    IF ~wsOpen
    THEN [pc |-> "done", resolvedPath |-> "", content |-> 0, fsLog |-> << >>,
          result |-> Failure(filePath, NoWorkspaceError)]
    ELSE [pc |-> "probe", resolvedPath |-> resolveFilePath(filePath, rootPath),
          content |-> 0, fsLog |-> << >>, result |-> NoResult]

\* !filePaths || filePaths.length === 0
EmptyRequest(paths) == Len(paths) = 0

\* a count check that lets one path more through
TooManyFilesAboveEleven(paths) == Len(paths) > MaxFilesPerCall + 1

\* filePaths.length > 10
TooManyFiles(paths) == Len(paths) > MaxFilesPerCall

\* the tool function up to its first await: the argument checks, then
\* processMultipleFiles starts one processFile per path.  The tool keeps no
\* state from one call to the next, so a behaviour holds one call.
ReadFileCode(paths, kb) ==
    /\ readPc = "idle"
    /\ filePaths' = paths
    /\ maxFileSize' = kb
    /\ IF EmptyRequest(paths)
       THEN /\ readResult' = [success |-> FALSE, error |-> "No file paths provided"]
            /\ readPc' = "done"
            /\ jobs' = << >>
            /\ settled' = << >>
       ELSE IF TooManyFiles(paths)
       THEN /\ readResult' = [success |-> FALSE, error |-> "Too many files requested"]
            /\ readPc' = "done"
            /\ jobs' = << >>
            /\ settled' = << >>
       ELSE /\ readResult' = NoResult
            /\ readPc' = "running"
            /\ jobs' = [i \in 1..Len(paths) |-> StartJob(paths[i])]
            /\ settled' = SelectSeq([i \in 1..Len(paths) |-> i],
                                    LAMBDA i : StartJob(paths[i]).pc = "done")
    /\ UNCHANGED << batch, notReadVars >>

\* the existence probe of one processFile answers
ProbeDone(i) ==
    /\ readPc = "running"
    /\ jobs[i].pc = "probe"
    /\ jobs' = [jobs EXCEPT ![i] =
                   IF fileExists(Workspaces[ws].nodes, jobs[i].resolvedPath)
                   THEN [@ EXCEPT !.pc = "read", !.fsLog = Append(@, "file")]
                   ELSE [@ EXCEPT !.pc = "done", !.fsLog = Append(@, "no file"),
                                  !.result = Failure(filePaths[i],
                                                     "File not found: " \o filePaths[i])]]
    /\ settled' = IF jobs'[i].pc = "done" THEN Append(settled, i) ELSE settled
    /\ UNCHANGED << readPc, filePaths, maxFileSize, batch, readResult, notReadVars >>

\* readFileContent of one processFile answers (ok) or throws: the file may
\* have gone or be unreadable by now
ReadDone(i, ok) ==
    /\ readPc = "running"
    /\ jobs[i].pc = "read"
    /\ jobs' = [jobs EXCEPT ![i] =
                   IF ok
                   THEN [@ EXCEPT !.pc = "stat", !.fsLog = Append(@, "read"),
                                  !.content = NodeAt(Workspaces[ws].nodes,
                                                     jobs[i].resolvedPath)]
                   ELSE [@ EXCEPT !.pc = "done", !.fsLog = Append(@, "read error"),
                                  !.result = Failure(filePaths[i],
                                                     "Failed to read file: EIO")]]
    /\ settled' = IF jobs'[i].pc = "done" THEN Append(settled, i) ELSE settled
    /\ UNCHANGED << readPc, filePaths, maxFileSize, batch, readResult, notReadVars >>

\* the size stat of one processFile answers (ok) or throws
StatDone(i, ok) ==
    /\ readPc = "running"
    /\ jobs[i].pc = "stat"
    /\ jobs' = [jobs EXCEPT ![i] =
                   IF ok
                   THEN [@ EXCEPT !.pc = "done", !.fsLog = Append(@, "stat"),
                                  !.result = [success |-> TRUE,
                                              filePath |-> filePaths[i],
                                              content |-> jobs[i].content,
                                              size |-> Workspaces[ws].nodes[jobs[i].content].bytes]]
                   ELSE [@ EXCEPT !.pc = "done", !.fsLog = Append(@, "stat error"),
                                  !.result = Failure(filePaths[i], "ENOENT")]]
    /\ settled' = IF jobs'[i].pc = "done" THEN Append(settled, i) ELSE settled
    /\ UNCHANGED << readPc, filePaths, maxFileSize, batch, readResult, notReadVars >>

\* a processMultipleFiles that loses the failures
processMultipleFilesLosingFailures(results) ==
    [successfulReads |-> SelectSeq(results, LAMBDA r : r.success),
     failedReads |-> << >>,
     totalFiles |-> Len(results)]

\* a processMultipleFiles that counts the files it read as the files requested
processMultipleFilesCountingReads(results) ==
    [successfulReads |-> SelectSeq(results, LAMBDA r : r.success),
     failedReads |-> SelectSeq(results, LAMBDA r : ~r.success),
     totalFiles |-> Len(SelectSeq(results, LAMBDA r : r.success))]

\* a processMultipleFiles whose Promise.all gives up the batch on a failure
processMultipleFilesAllOrNothing(results) ==
    IF \E i \in 1..Len(results) : ~results[i].success
    THEN [successfulReads |-> << >>,
          failedReads |-> SelectSeq(results, LAMBDA r : ~r.success),
          totalFiles |-> Len(results)]
    ELSE [successfulReads |-> results, failedReads |-> << >>,
          totalFiles |-> Len(results)]

\* a processMultipleFiles that collects each result as its processFile returns
processMultipleFilesAsSettled(results) ==
    [successfulReads |-> SelectSeq([k \in 1..Len(settled) |-> results[settled[k]]],
                                   LAMBDA r : r.success),
     failedReads |-> SelectSeq([k \in 1..Len(settled) |-> results[settled[k]]],
                               LAMBDA r : ~r.success),
     totalFiles |-> Len(results)]

\* processMultipleFiles once Promise.all has every result, in request order
processMultipleFiles(results) ==
    [successfulReads |-> SelectSeq(results, LAMBDA r : r.success),
     failedReads |-> SelectSeq(results, LAMBDA r : ~r.success),
     totalFiles |-> Len(results)]

\* Buffer.byteLength(file.content, "utf8") of a content that was read
byteLength(content) == Workspaces[ws].nodes[content].bytes

\* a size filter that also turns away a file of exactly the limit
filteredSuccessfulBelowLimit(successfulReads, kb) ==
    SelectSeq(successfulReads, LAMBDA file : byteLength(file.content) < kb * BytesPerKB)

\* the size filter of the tool function
filteredSuccessful(successfulReads, kb) ==
    SelectSeq(successfulReads, LAMBDA file : byteLength(file.content) <= kb * BytesPerKB)

\* formatFileContentForLLM: the text lists these files, in this order
formatFileContentForLLM(successfulReads, failedReads) ==
    [read |-> [i \in 1..Len(successfulReads) |->
                  [filePath |-> successfulReads[i].filePath,
                   content |-> successfulReads[i].content,
                   size |-> successfulReads[i].size]],
     failed |-> [i \in 1..Len(failedReads) |->
                  [filePath |-> failedReads[i].filePath,
                   error |-> failedReads[i].error]]]

\* every processFile has answered: the tool function filters, formats and returns
ReadReturn ==
    /\ readPc = "running"
    /\ \A i \in 1..Len(jobs) : jobs[i].pc = "done"
    /\ LET results == processMultipleFiles([i \in 1..Len(jobs) |-> jobs[i].result])
           filtered == filteredSuccessful(results.successfulReads, maxFileSize)
       IN  /\ batch' = results
           /\ readResult' =
                         [success |-> TRUE,
                          filesRead |-> Len(filtered),
                          filesFailed |-> Len(results.failedReads),
                          filesOversized |-> Len(results.successfulReads) - Len(filtered),
                          totalRequested |-> results.totalFiles,
                          content |-> formatFileContentForLLM(filtered,
                                                              results.failedReads)]
    /\ readPc' = "done"
    /\ UNCHANGED << filePaths, maxFileSize, jobs, settled, notReadVars >>

vars == << envVars, scanVars, readVars, keyVars, filterVars, chatVars >>

\* no call of shouldSkipFile on its own
FilterOff ==
    /\ rules = << >>
    /\ entry = [name |-> "", relativePath |-> "", type |-> "file"]
    /\ verdict = "none"

\* the chat view was never opened
ChatOff ==
    /\ view = FALSE
    /\ messages = << >>
    /\ calls = << >>
    /\ posted = << >>
    /\ received = << >>
    /\ clears = 0

\* the extension is not activated
KeyOff ==
    /\ envKey = ""
    /\ cachedApiKey = ""
    /\ secret = ""
    /\ keyPc = "off"
    /\ keyCaller = "none"
    /\ wanted = ""
    /\ pending = ""

Init ==
    /\ ws \in 1..Len(Workspaces)
    /\ wsOpen \in BOOLEAN
    /\ ScanInit
    /\ ReadInit
    /\ KeyOff
    /\ FilterOff
    /\ ChatOff

Next ==
    \/ \E hidden \in BOOLEAN, n \in -1..MaxCap : ReadFileStructure(hidden, n)
    \/ ListDirectory
    \/ ScanEntry
    \/ ScanDirectoryReturn
    \/ ScanReturn

Spec == Init /\ [][Next]_vars

\* the scanner with every await answered and every continuation run: the
\* event loop runs a continuation once its promise is settled
LiveSpec ==
    /\ Init
    /\ [][Next]_vars
    /\ WF_vars(ListDirectory)
    /\ WF_vars(ScanEntry)
    /\ WF_vars(ScanDirectoryReturn)
    /\ WF_vars(ScanReturn)

\* two calls of read_file_structure at once on a workspace whose ignore file
\* may be rewritten meanwhile
TwoScansInit ==
    /\ ws \in { v \in 1..Len(Workspaces) : Workspaces[v].nodes = WsIgnore.nodes }
    /\ wsOpen = TRUE
    /\ ScanInit
    /\ ReadInit
    /\ KeyOff
    /\ FilterOff
    /\ ChatOff

TwoScansNext ==
    \/ \E hidden \in BOOLEAN, n \in -1..MaxCap : ReadFileStructure(hidden, n)
    \/ ListDirectory
    \/ ScanEntry
    \/ ScanDirectoryReturn
    \/ ScanReturn
    \/ OtherScanStarts
    \/ OtherScanEntry
    \/ OtherScanReturns
    \/ IgnoreFileChanges

TwoScansSpec == TwoScansInit /\ [][TwoScansNext]_vars

\* the batch reader at work on the workspace without ignore file
ReaderInit ==
    /\ ws = 2
    /\ wsOpen \in BOOLEAN
    /\ ScanInit
    /\ ReadInit
    /\ KeyOff
    /\ FilterOff
    /\ ChatOff

ReaderNext ==
    \/ \E paths \in Requests, kb \in 0..MaxKB : ReadFileCode(paths, kb)
    \/ \E i \in 1..Len(jobs) : ProbeDone(i)
    \/ \E i \in 1..Len(jobs), ok \in BOOLEAN : ReadDone(i, ok)
    \/ \E i \in 1..Len(jobs), ok \in BOOLEAN : StatDone(i, ok)
    \/ ReadReturn

ReaderSpec == ReaderInit /\ [][ReaderNext]_vars

(***************************************************************************)
(* The two tools in sequence (testToolsSequence): one read_file_structure  *)
(* call, then one read_file_code call on paths taken from its answer.      *)
(***************************************************************************)
\* the most paths taken from a structure for one read_file_code call
MaxTargets == 1

\* the relative paths a finished scan answered
TargetPaths ==
    IF scanPc = "done" /\ scanResult.success
    THEN { scanResult.files[k].relativePath : k \in 1..Len(scanResult.files) }
    ELSE {}

\* the requests made after a scan: lists of paths of its answer and of a path
\* that names nothing, and one list that is longer than a call may be
SequenceRequests ==
    UNION { SeqsOfLen(TargetPaths \cup { "nope.ts" }, n) : n \in 0..MaxTargets }
        \cup { [i \in 1..(MaxFilesPerCall + 1) |-> "a.ts"] }

\* step 1: the structure tool is invoked with includeHidden left at its default
SequenceScan(n) ==
    /\ scanPc = "idle"
    /\ ReadFileStructure(FALSE, n)

\* step 2: the code tool is invoked once the structure is there
SequenceRead(paths, kb) ==
    /\ scanPc = "done"
    /\ ReadFileCode(paths, kb)

SequenceNext ==
    \/ \E n \in -1..MaxCap : SequenceScan(n)
    \/ ListDirectory
    \/ ScanEntry
    \/ ScanDirectoryReturn
    \/ ScanReturn
    \/ \E paths \in SequenceRequests, kb \in 0..MaxKB : SequenceRead(paths, kb)
    \/ \E i \in 1..Len(jobs) : ProbeDone(i)
    \/ \E i \in 1..Len(jobs), ok \in BOOLEAN : ReadDone(i, ok)
    \/ \E i \in 1..Len(jobs), ok \in BOOLEAN : StatDone(i, ok)
    \/ ReadReturn

SequenceSpec == Init /\ [][SequenceNext]_vars

(***************************************************************************)
(* The API key: config.ts and the handlers of extension.ts that set it.    *)
(***************************************************************************)
\* what a user types into the input box ("" also stands for a dismissed box)
InputPool == << "", "k1", " k2 ", "k3" >>

\* the keys the environment of the process may hold
EnvPool == << "", "k0" >>

\* setCachedApiKey: _cachedApiKey = key?.trim() || undefined
setCachedApiKey(key) == Trim(key)

\* getCachedApiKeySync
getCachedApiKeySync == cachedApiKey

\* getOpenAIApiKey up to its first await: the environment, then the cache
Lookup(cache) ==
    IF envKey # ""
    THEN [returns |-> TRUE, key |-> envKey, cache |-> setCachedApiKey(envKey)]
    ELSE IF cache # "" /\ Trim(cache) # ""
    THEN [returns |-> TRUE, key |-> cache, cache |-> cache]
    ELSE [returns |-> FALSE, key |-> "", cache |-> cache]

\* a caller calls getOpenAIApiKey (StartCall), and getOpenAIApiKey returns a
\* key to its caller (Continue), which goes on to its next await: the
\* position, the caller and the cache after that
RECURSIVE StartCall(_, _), Continue(_, _, _)
StartCall(caller, cache) ==
    LET l == Lookup(cache)
    IN  IF l.returns THEN Continue(caller, l.key, l.cache)
        ELSE [pc |-> "secret", caller |-> caller, cache |-> cache]

Continue(caller, key, cache) ==
    IF caller = "command"
    THEN [pc |-> "idle", caller |-> "command",
          cache |-> IF key # "" THEN setCachedApiKey(key) ELSE cache]
    ELSE IF caller = "activate"
    THEN IF key # ""
         THEN [pc |-> "idle", caller |-> "activate", cache |-> setCachedApiKey(key)]
         ELSE StartCall("validate", cache)
    ELSE IF caller = "validate"
    THEN IF key # "" /\ Trim(key) # ""
         THEN [pc |-> "idle", caller |-> "activate", cache |-> cache]
         ELSE [pc |-> "choice", caller |-> "activate", cache |-> cache]
    ELSE [pc |-> "idle", caller |-> "activate",
          cache |-> IF key # "" THEN setCachedApiKey(key) ELSE cache]

GoOn(next) ==
    /\ keyPc' = next.pc
    /\ keyCaller' = next.caller
    /\ cachedApiKey' = next.cache

\* activate in a fresh extension host: the module is loaded, the command is
\* registered and the key is looked for
Activate ==
    /\ keyPc \in {"off", "idle"}
    /\ GoOn(StartCall("activate", envKey))
    /\ wanted' = ""
    /\ UNCHANGED << envKey, secret, pending, notKeyVars >>

\* the handler of codebase-analyzer.setApiKey, run by a user who has the key
\* input to give
SetApiKeyCommand(input) ==
    /\ keyPc = "idle"
    /\ wanted' = input
    /\ GoOn(StartCall("command", cachedApiKey))
    /\ UNCHANGED << envKey, secret, pending, notKeyVars >>

\* context.secrets.get answers (ok) or throws
SecretAnswers(ok) ==
    /\ keyPc = "secret"
    /\ IF ok /\ secret # "" /\ Trim(secret) # ""
       THEN GoOn(Continue(keyCaller, Trim(secret), setCachedApiKey(Trim(secret))))
       ELSE /\ keyPc' = "prompt"
            /\ UNCHANGED << keyCaller, cachedApiKey >>
    /\ UNCHANGED << envKey, secret, wanted, pending, notKeyVars >>

\* showInputBox answers: the user of the command types the key they have,
\* any other user types or dismisses
PromptAnswers(input) ==
    /\ keyPc = "prompt"
    /\ keyCaller = "command" => input = wanted
    /\ IF input # "" /\ Trim(input) # ""
       THEN /\ pending' = Trim(input)
            /\ keyPc' = "store"
            /\ UNCHANGED << keyCaller, cachedApiKey >>
       ELSE /\ GoOn(Continue(keyCaller, "", cachedApiKey))
            /\ UNCHANGED pending
    /\ UNCHANGED << envKey, secret, wanted, notKeyVars >>

\* context.secrets.store answers (ok) or throws; the key is cached either way
StoreAnswers(ok) ==
    /\ keyPc = "store"
    /\ secret' = IF ok THEN pending ELSE secret
    /\ GoOn(Continue(keyCaller, pending, setCachedApiKey(pending)))
    /\ pending' = ""
    /\ UNCHANGED << envKey, wanted, notKeyVars >>

\* the user answers the "Set API Key" / "Dismiss" question of activate
ChoiceAnswers(set) ==
    /\ keyPc = "choice"
    /\ IF set
       THEN GoOn(StartCall("retry", cachedApiKey))
       ELSE /\ keyPc' = "idle"
            /\ UNCHANGED << keyCaller, cachedApiKey >>
    /\ UNCHANGED << envKey, secret, wanted, pending, notKeyVars >>

KeyInit ==
    /\ ws = 1
    /\ wsOpen = TRUE
    /\ ScanInit
    /\ ReadInit
    /\ FilterOff
    /\ ChatOff
    /\ envKey \in { EnvPool[i] : i \in 1..Len(EnvPool) }
    /\ secret \in { Trim(InputPool[i]) : i \in 1..Len(InputPool) }
    /\ cachedApiKey = ""
    /\ keyPc = "off"
    /\ keyCaller = "none"
    /\ wanted = ""
    /\ pending = ""

KeyNext ==
    \/ Activate
    \/ \E input \in { InputPool[i] : i \in 1..Len(InputPool) } : SetApiKeyCommand(input)
    \/ \E ok \in BOOLEAN : SecretAnswers(ok)
    \/ \E input \in { InputPool[i] : i \in 1..Len(InputPool) } : PromptAnswers(input)
    \/ \E ok \in BOOLEAN : StoreAnswers(ok)
    \/ \E set \in BOOLEAN : ChoiceAnswers(set)

KeySpec == KeyInit /\ [][KeyNext]_vars

(***************************************************************************)
(* shouldSkipFile on its own, with the rules of an ignore file.            *)
(***************************************************************************)
\* the most patterns of a rule set
MaxRules == 2

\* the patterns rule sets are made of
PatternPool ==
    << "*.log", "!keep.log", "build/", "!build/keep.txt", "src", "a?.ts", "a?.*" >>

\* the entries asked about
EntryPool ==
    << [name |-> "keep.log", relativePath |-> "keep.log", type |-> "file"],
       [name |-> "keep.txt", relativePath |-> "build/keep.txt", type |-> "file"],
       [name |-> "out.js", relativePath |-> "build/out.js", type |-> "file"],
       [name |-> "a.ts", relativePath |-> "src/a.ts", type |-> "file"],
       [name |-> "build", relativePath |-> "build", type |-> "directory"],
       [name |-> "build", relativePath |-> "src/build", type |-> "file"],
       [name |-> "ab.ts", relativePath |-> "ab.ts", type |-> "file"] >>

\* every ordered rule set of 1..MaxRules pool patterns
RuleSets ==
    UNION { SeqsOfLen({ PatternPool[i] : i \in 1..Len(PatternPool) }, n) :
              n \in 1..MaxRules }

\* shouldSkipFile in ignore-file mode
ShouldSkipFile ==
    /\ verdict = "none"
    /\ verdict' = IF SkipDecision(entry.name, entry.relativePath, rules, TRUE)
                  THEN "skip"
                  ELSE "keep"
    /\ UNCHANGED << rules, entry, notFilterVars >>

FilterInit ==
    /\ ws = 1
    /\ wsOpen = TRUE
    /\ ScanInit
    /\ ReadInit
    /\ KeyOff
    /\ ChatOff
    /\ rules \in RuleSets
    /\ entry \in { EntryPool[i] : i \in 1..Len(EntryPool) }
    /\ verdict = "none"

FilterNext == ShouldSkipFile

FilterSpec == FilterInit /\ [][FilterNext]_vars

(***************************************************************************)
(* The chat view (ChatBotViewProvider).  The listener of the webview hands *)
(* every sendMessage to handleUserMessage, an async function: it stays at  *)
(* the await of getAIResponse while the agent works, and meanwhile the     *)
(* listener and the clearChat command run.                                 *)
(***************************************************************************)
\* the most sendMessage events of a behaviour
MaxSends == 2

\* the most clearings of a behaviour
MaxClears == 1

\* the texts the webview sends
MessagePool == << "", " ", "hi", " fix " >>

\* the messages of the errors analyzeCodebaseTask throws
ErrorPool == << "Agent execution failed: timeout", "OpenAI API key issue: 401" >>

\* what analyzeCodebaseTask returns: result.output, or its default text
OutputPool == << "plan", "No response generated from the agent" >>

ConfigurationError == "Configuration Error"

NoResponse == "Sorry, I could not generate a response."

ChatMessage(role, content, call) == [role |-> role, content |-> content, call |-> call]

\* chatbotState.view?.webview.postMessage({ type })
postMessage(log, type) == IF view THEN Append(log, type) ELSE log

updateWebview(log) == postMessage(log, "updateMessages")

showTypingIndicator(log) == postMessage(log, "showTyping")

\* a handler that leaves the typing indicator on
hideTypingIndicatorForgotten(log) == log

hideTypingIndicator(log) == postMessage(log, "hideTyping")

\* result[0]?.text || "Sorry, ...": the result is a string, its first
\* character has no text, so the fallback is the answer
getAIResponse(result) == NoResponse

\* the text handleError pushes
ErrorText(error) == "Error: " \o error

\* resolveWebviewView: the view is kept and the listener registered
ResolveWebviewView ==
    /\ ~view
    /\ view' = TRUE
    /\ UNCHANGED << messages, calls, posted, received, clears, notChatVars >>

\* the listener gets a sendMessage: handleUserMessage up to its await, or
\* to its end when the text is blank or the configuration is not valid
HandleUserMessage(message, valid) ==
    /\ view
    /\ Len(received) < MaxSends
    /\ received' = Append(received, message)
    /\ IF Trim(message) = ""
       THEN UNCHANGED << messages, calls, posted >>
       ELSE LET c == Len(calls) + 1
                withUser == Append(messages, ChatMessage("user", message, c))
                shown == updateWebview(posted)
            IN  IF ~valid
                THEN /\ messages' = Append(withUser,
                                           ChatMessage("assistant", ConfigurationError, c))
                     /\ posted' = updateWebview(shown)
                     /\ calls' = Append(calls, [message |-> message, pc |-> "done"])
                ELSE /\ messages' = withUser
                     /\ posted' = showTypingIndicator(shown)
                     /\ calls' = Append(calls, [message |-> message, pc |-> "await"])
    /\ UNCHANGED << view, clears, notChatVars >>

\* getAIResponse answers: the rest of the try block
AnalysisReturns(c, result) ==
    /\ c \in 1..Len(calls)
    /\ calls[c].pc = "await"
    /\ posted' = updateWebview(hideTypingIndicator(posted))
    /\ messages' = Append(messages, ChatMessage("assistant", getAIResponse(result), c))
    /\ calls' = [calls EXCEPT ![c].pc = "done"]
    /\ UNCHANGED << view, received, clears, notChatVars >>

\* getAIResponse throws: the catch block
AnalysisThrows(c, error) ==
    /\ c \in 1..Len(calls)
    /\ calls[c].pc = "await"
    /\ posted' = updateWebview(hideTypingIndicator(posted))
    /\ messages' = Append(messages, ChatMessage("assistant", ErrorText(error), c))
    /\ calls' = [calls EXCEPT ![c].pc = "done"]
    /\ UNCHANGED << view, received, clears, notChatVars >>

\* the analysis of call c comes to an end, one way or the other
AnalysisCompletes(c) ==
    \/ \E k \in 1..Len(OutputPool) : AnalysisReturns(c, OutputPool[k])
    \/ \E k \in 1..Len(ErrorPool) : AnalysisThrows(c, ErrorPool[k])

\* clearChatMessages, from the listener or from the clearChat command
ClearChatMessages ==
    /\ clears < MaxClears
    /\ clears' = clears + 1
    /\ messages' = << >>
    /\ posted' = updateWebview(posted)
    /\ UNCHANGED << view, calls, received, notChatVars >>

ChatInit ==
    /\ ws = 1
    /\ wsOpen = TRUE
    /\ ScanInit
    /\ ReadInit
    /\ KeyOff
    /\ FilterOff
    /\ ChatOff

ChatNext ==
    \/ ResolveWebviewView
    \/ \E k \in 1..Len(MessagePool), valid \in BOOLEAN :
          HandleUserMessage(MessagePool[k], valid)
    \/ \E c \in 1..MaxSends : AnalysisCompletes(c)
    \/ ClearChatMessages

ChatSpec == ChatInit /\ [][ChatNext]_vars

\* the chat view when every analysis call comes to an end
ChatLiveSpec ==
    /\ ChatInit
    /\ [][ChatNext]_vars
    /\ \A c \in 1..MaxSends : WF_vars(AnalysisCompletes(c))

(***************************************************************************)
(* Facts about a workspace tree, stated on the tree itself and not on the  *)
(* traversal.                                                              *)
(***************************************************************************)
\* the workspace the tools see
Ws == Workspaces[ws]

RootNode(w) == NodeAt(w.nodes, rootPath)

\* the directories a node lies in, the nearest last, down from directory d
\* (d itself left out); << >> if the node is not below d
RECURSIVE ChainBelow(_, _, _)
ChainBelow(nodes, n, d) ==
    IF n = d \/ n = 0 THEN << >>
    ELSE IF nodes[n].parent = d THEN << n >>
    ELSE LET up == ChainBelow(nodes, nodes[n].parent, d)
         IN  IF up = << >> THEN << >> ELSE Append(up, n)

IsBelow(nodes, n, d) == ChainBelow(nodes, n, d) # << >>

\* the path of a node below the workspace root, relative to the root
RelPathOf(w, n) ==
    LET chain == ChainBelow(w.nodes, n, RootNode(w))
        joined == JoinSegments([i \in 1..Len(chain) |-> w.nodes[chain[i]].name])
    IN  SubSeq(joined, 2, Len(joined))

\* the rule set a scan of the workspace derives
RulesOf(w) == getSkipPatterns(w, rootPath, Null, FALSE)

\* the filter excludes the node
Excluded(w, n) ==
    SkipDecision(w.nodes[n].name, RelPathOf(w, n), RulesOf(w).patterns,
                 RulesOf(w).useGitignore)

\* the entries of the tree that the filter does not exclude and that are
\* not beneath an excluded directory
NotExcludedEntries(w) ==
    { n \in 1..Len(w.nodes) :
        LET chain == ChainBelow(w.nodes, n, RootNode(w))
        IN  /\ chain # << >>
            /\ \A i \in 1..Len(chain) : ~Excluded(w, chain[i]) }

\* those of them that are files or directories and that a traversal can
\* get to: every directory above them, the root included, can be listed
ReachableEntries(w) ==
    { n \in NotExcludedEntries(w) :
        LET chain == ChainBelow(w.nodes, n, RootNode(w))
        IN  /\ w.nodes[n].type \in {"file", "directory"}
            /\ CanList(w.nodes, rootPath)
            /\ \A i \in 1..(Len(chain) - 1) :
                  w.nodes[chain[i]].type = "directory" /\ w.nodes[chain[i]].listable }

ScanSucceeded == scanPc = "done" /\ scanResult.success

(***************************************************************************)
(* C1, as stated: a scan with cap maxFiles = N >= 0 returns at most N      *)
(* entries, and exactly N if the tree holds at least N entries that the    *)
(* filter does not exclude and that are not beneath an excluded directory. *)
(* Fails: a symbolic link is such an entry and is never returned, and so   *)
(* are the entries of a directory whose listing fails.                     *)
(***************************************************************************)
C1_AsStated ==
    (ScanSucceeded /\ maxFiles >= 0) =>
        /\ scanResult.fileCount <= maxFiles
        /\ Cardinality(NotExcludedEntries(Ws)) >= maxFiles
              => scanResult.fileCount = maxFiles

(***************************************************************************)
(* C1, amended: a scan with cap N >= 0 returns at most N entries, and      *)
(* exactly N if the tree holds at least N files and directories that are   *)
(* not excluded, not beneath an excluded directory and not beneath a       *)
(* directory whose listing fails.                                          *)
(***************************************************************************)
C1_CapIsExact ==
    (ScanSucceeded /\ maxFiles >= 0) =>
        /\ scanResult.fileCount <= maxFiles
        /\ Cardinality(ReachableEntries(Ws)) >= maxFiles
              => scanResult.fileCount = maxFiles

\* a scan that was cut: the tree holds more entries than the cap lets through
C1_Witness ==
    /\ ScanSucceeded
    /\ maxFiles >= 2
    /\ scanResult.fileCount = maxFiles
    /\ Cardinality(ReachableEntries(Ws)) > maxFiles

(***************************************************************************)
(* C2: with the ignore file patterns build/ and !build/keep.txt, a scan    *)
(* whose cap is not reached returns build/keep.txt and no other entry      *)
(* under build/.  Fails: build itself matches build/ and is never entered. *)
(***************************************************************************)
C2_KeepIsReturned ==
    ( /\ ScanSucceeded
      /\ parseGitignoreFile(Ws, rootPath) = << "build/", "!build/keep.txt" >>
      /\ scanResult.fileCount < maxFiles ) =>
        /\ \E i \in 1..Len(scanResult.files) :
              scanResult.files[i].relativePath = "build/keep.txt"
        /\ \A i \in 1..Len(scanResult.files) :
              StartsWith(scanResult.files[i].relativePath, "build/")
                  => scanResult.files[i].relativePath = "build/keep.txt"

\* the place of an entry in a list of entries (entries differ in their paths)
PlaceOf(entries, e) == CHOOSE k \in 1..Len(entries) : entries[k] = e

(***************************************************************************)
(* C7: in a scan result no file precedes a directory, within the           *)
(* directories and within the files the names are non-decreasing, and      *)
(* entries of equal name keep the order in which the traversal found them. *)
(***************************************************************************)
C7_SortOrder ==
    ScanSucceeded =>
        LET r == scanResult.files
        IN  \A i, j \in 1..Len(r) :
                i < j =>
                    /\ ~(r[i].type = "file" /\ r[j].type = "directory")
                    /\ r[i].type = r[j].type
                          => localeCompare(r[i].name, r[j].name) <= 0
                    /\ (r[i].type = r[j].type /\ r[i].name = r[j].name)
                          => PlaceOf(files, r[i]) < PlaceOf(files, r[j])

\* the traversal found a file before a directory and two files of one name,
\* and the result holds them all
C7_Witness ==
    /\ ScanSucceeded
    /\ Len(scanResult.files) = Len(files)
    /\ \E i, j \in 1..Len(files) :
          i < j /\ files[i].type = "file" /\ files[j].type = "directory"
    /\ \E i, j \in 1..Len(files) :
          i < j /\ files[i].type = files[j].type /\ files[i].name = files[j].name

\* no ignore file, or one without patterns
NoIgnorePatterns == parseGitignoreFile(Ws, rootPath) = << >>

InNodeModules(path) == \E k \in 1..Len(Split(path)) : Split(path)[k] = "node_modules"

(***************************************************************************)
(* C8: without ignore patterns a directory named node_modules, at any      *)
(* depth, is never collected, never entered, and no entry inside it is     *)
(* collected or returned.                                                  *)
(***************************************************************************)
C8_NodeModulesExcluded ==
    NoIgnorePatterns =>
        /\ \A i \in 1..Len(files) : ~InNodeModules(files[i].relativePath)
        /\ \A k \in 1..Len(stack) : ~InNodeModules(stack[k].dirPath)
        /\ ScanSucceeded =>
              \A i \in 1..Len(scanResult.files) :
                  ~InNodeModules(scanResult.files[i].relativePath)

\* a scan went past a node_modules directory that lies below the top level:
\* the result holds an entry listed after it in the same directory
C8_Witness ==
    /\ NoIgnorePatterns
    /\ ScanSucceeded
    /\ \E n, m \in 1..Len(Ws.nodes) :
          /\ Ws.nodes[n].name = "node_modules"
          /\ Ws.nodes[n].type = "directory"
          /\ Len(ChainBelow(Ws.nodes, n, RootNode(Ws))) >= 2
          /\ Ws.nodes[m].parent = Ws.nodes[n].parent
          /\ m > n
          /\ \E i \in 1..Len(scanResult.files) :
                scanResult.files[i].relativePath = RelPathOf(Ws, m)

(***************************************************************************)
(* The batch reader.                                                       *)
(***************************************************************************)
\* a read_file_code call with 1 to 10 paths has returned
ReadFinished == readPc = "done" /\ Len(filePaths) \in 1..MaxFilesPerCall

\* how many elements of a sequence pass a test
CountIn(seq, Test(_)) == Cardinality({ k \in 1..Len(seq) : Test(seq[k]) })

\* the size limit of the call in bytes
LimitBytes == maxFileSize * BytesPerKB

\* processFile number i read its file and the content is over the limit
Oversized(i) ==
    jobs[i].result.success /\ Workspaces[ws].nodes[jobs[i].result.content].bytes > LimitBytes

\* the file system answered every question of processFile number i: the
\* path names a file, the content was read, the size was told
AllAnswered(i) == jobs[i].fsLog = << "file", "read", "stat" >>

(***************************************************************************)
(* C3, as stated: every requested path appears in the returned report,     *)
(* once for each time it was requested, as a file read or as a file that   *)
(* failed.  Fails: a file over the size limit is in neither list.          *)
(***************************************************************************)
C3_AsStated ==
    ReadFinished =>
        /\ readResult.success
        /\ \A i \in 1..Len(filePaths) :
              CountIn(filePaths, LAMBDA p : p = filePaths[i])
                  = CountIn(readResult.content.read, LAMBDA e : e.filePath = filePaths[i])
                    + CountIn(readResult.content.failed,
                              LAMBDA e : e.filePath = filePaths[i])

(***************************************************************************)
(* C3, amended: every requested path yields exactly one result, and it     *)
(* appears in the returned report as a file read or as a file that failed  *)
(* unless its content is over the size limit: such a path is in neither    *)
(* list and is counted in filesOversized only.                             *)
(***************************************************************************)
C3_OneResultPerPath ==
    ReadFinished =>
        /\ readResult.success
        /\ Len(batch.successfulReads) + Len(batch.failedReads) = Len(filePaths)
        /\ readResult.filesOversized
              = Cardinality({ i \in 1..Len(filePaths) : Oversized(i) })
        /\ \A i \in 1..Len(filePaths) :
              /\ jobs[i].result.filePath = filePaths[i]
              /\ CountIn(filePaths, LAMBDA p : p = filePaths[i])
                    = CountIn(readResult.content.read,
                              LAMBDA e : e.filePath = filePaths[i])
                      + CountIn(readResult.content.failed,
                                LAMBDA e : e.filePath = filePaths[i])
                      + Cardinality({ j \in 1..Len(filePaths) :
                                        filePaths[j] = filePaths[i] /\ Oversized(j) })

\* a call with a path that failed and a path over the limit
C3_Witness ==
    /\ ReadFinished
    /\ Len(readResult.content.failed) = 1
    /\ \E i \in 1..Len(filePaths) : Oversized(i)

(***************************************************************************)
(* C4: the file probed and read for a path lies under the workspace root.  *)
(* Fails: an absolute path outside the root is used as it is, a relative   *)
(* path climbs out with "..", a path that only starts with the characters  *)
(* of the root is taken as rooted.                                         *)
(***************************************************************************)
C4_ReadsStayUnderRoot ==
    \A i \in 1..Len(jobs) :
        /\ jobs[i].fsLog # << >>
              => StartsWith(Canonical(jobs[i].resolvedPath), rootPath \o "/")
        /\ jobs[i].content # 0
              => IsBelow(Workspaces[ws].nodes, jobs[i].content, RootNode(Workspaces[ws]))

C6_NoWorkspaceFailsTheCall ==
    /\ (scanPc = "done" /\ ~wsOpen)
          => (~scanResult.success /\ scanResult.error = NoWorkspaceError)
    /\ (ReadFinished /\ ~wsOpen)
          => (~readResult.success /\ readResult.error = NoWorkspaceError)

C10_SizeLimit ==
    (ReadFinished /\ readResult.success) =>
        LET readOk == { i \in 1..Len(jobs) : jobs[i].result.success }
            over == { i \in readOk : Oversized(i) }
            within == readOk \ over
        IN  /\ readResult.filesOversized = Cardinality(over)
            /\ readResult.filesRead = Cardinality(within)
            /\ readResult.filesFailed = Len(jobs) - Cardinality(readOk)
            /\ Len(readResult.content.read) = Cardinality(within)
            /\ Len(readResult.content.failed) = Len(jobs) - Cardinality(readOk)
            /\ \A i \in within :
                  \E k \in 1..Len(readResult.content.read) :
                      /\ readResult.content.read[k].filePath = filePaths[i]
                      /\ readResult.content.read[k].content = jobs[i].result.content
            /\ \A i \in over :
                  /\ \A k \in 1..Len(readResult.content.read) :
                        readResult.content.read[k].content # jobs[i].result.content
                  /\ \A k \in 1..Len(readResult.content.failed) :
                        readResult.content.failed[k].filePath = filePaths[i]
                            => \E j \in 1..Len(jobs) :
                                  filePaths[j] = filePaths[i] /\ ~jobs[j].result.success

\* a file of exactly the limit was returned and a file one byte over was not
C10_Witness ==
    /\ ReadFinished
    /\ readResult.success
    /\ maxFileSize >= 1
    /\ \E i, j \in 1..Len(jobs) :
          /\ jobs[i].result.success
          /\ Workspaces[ws].nodes[jobs[i].result.content].bytes = LimitBytes
          /\ Oversized(j)
          /\ Workspaces[ws].nodes[jobs[j].result.content].bytes = LimitBytes + 1
    /\ readResult.filesRead = 1
    /\ readResult.filesOversized = 1

(***************************************************************************)
(* C11: read_file_code called with no path returns the failure "No file    *)
(* paths provided", and called with more than 10 paths returns the failure *)
(* "Too many files requested"; either way the call ends at once with a     *)
(* returned result, and no processFile is started: nothing is probed or    *)
(* read.                                                                   *)
(***************************************************************************)
C11_ArgumentChecks ==
    (readPc # "idle" /\ (Len(filePaths) = 0 \/ Len(filePaths) > 10)) =>
        /\ readPc = "done"
        /\ ~readResult.success
        /\ readResult.error = IF Len(filePaths) = 0
                              THEN "No file paths provided"
                              ELSE "Too many files requested"
        /\ jobs = << >>
        /\ batch = NoBatch

\* a call with eleven paths was turned away
C11_Witness ==
    /\ readPc = "done"
    /\ Len(filePaths) = 11
    /\ readResult = [success |-> FALSE, error |-> "Too many files requested"]
    /\ jobs = << >>

(***************************************************************************)
(* C12: every finished call of read_file_structure and of read_file_code   *)
(* has returned a result object: one with success = true and the answer,   *)
(* or one with success = false and an error.  No error leaves a call: not  *)
(* a missing workspace, not a directory listing or a file read that fails, *)
(* not bad arguments; inside read_file_code every path has a result object *)
(* of its own.                                                             *)
(***************************************************************************)
C12_ResultsAreStructured ==
    /\ scanPc = "done" =>
          /\ scanResult # NoResult
          /\ "success" \in DOMAIN scanResult
          /\ DOMAIN scanResult = IF scanResult.success
                                 THEN {"success", "fileCount", "files", "usingGitignore"}
                                 ELSE {"success", "error"}
    /\ readPc = "done" =>
          /\ readResult # NoResult
          /\ "success" \in DOMAIN readResult
          /\ DOMAIN readResult = IF readResult.success
                                 THEN {"success", "filesRead", "filesFailed",
                                       "filesOversized", "totalRequested", "content"}
                                 ELSE {"success", "error"}
          /\ \A i \in 1..Len(jobs) :
                DOMAIN jobs[i].result = IF jobs[i].result.success
                                        THEN {"success", "filePath", "content", "size"}
                                        ELSE {"success", "filePath", "error"}

\* a scan with a directory that could not be listed, then a read that failed
C12_Witness ==
    /\ scanPc = "done"
    /\ scanResult.success
    /\ \E k \in 1..Len(scanResult.files) : scanResult.files[k].name = "locked"
    /\ readPc = "done"
    /\ readResult.success
    /\ \E i \in 1..Len(jobs) : jobs[i].fsLog = << "file", "read error" >>

(***************************************************************************)
(* C13: every file entry a scan returns has a path relative to the         *)
(* workspace root that names one file of the tree; read_file_code given     *)
(* that path unchanged resolves it to that very file, and if the file can  *)
(* still be read and is within the size limit, the call returns its        *)
(* content.                                                                *)
(***************************************************************************)
C13_RoundTrip ==
    ScanSucceeded =>
        \A k \in 1..Len(scanResult.files) :
            LET e == scanResult.files[k]
            IN  e.type = "file" =>
                  /\ ~pathIsAbsolute(e.relativePath)
                  /\ \E n \in 1..Len(Ws.nodes) :
                        /\ Ws.nodes[n].type = "file"
                        /\ Ws.nodes[n].name = e.name
                        /\ IsBelow(Ws.nodes, n, RootNode(Ws))
                        /\ RelPathOf(Ws, n) = e.relativePath
                        /\ NodeAt(Ws.nodes, resolveFilePath(e.relativePath, rootPath)) = n
                        /\ \A i \in 1..Len(jobs) :
                              ( /\ ReadFinished
                                /\ filePaths[i] = e.relativePath
                                /\ AllAnswered(i)
                                /\ Ws.nodes[n].bytes <= LimitBytes )
                              => /\ readResult.success
                                 /\ \E r \in 1..Len(readResult.content.read) :
                                       /\ readResult.content.read[r].filePath
                                             = e.relativePath
                                       /\ readResult.content.read[r].content = n

\* a file in a subdirectory was found by a scan and then read by its path
C13_Witness ==
    /\ ScanSucceeded
    /\ ReadFinished
    /\ \E k \in 1..Len(scanResult.files) :
          /\ scanResult.files[k].type = "file"
          /\ scanResult.files[k].relativePath = "src/a.ts"
          /\ filePaths = << scanResult.files[k].relativePath >>
    /\ readResult.success
    /\ readResult.filesRead = 1

(***************************************************************************)
(* C14: the includeHidden argument decides on hidden entries: of a scan    *)
(* that was not cut by the cap, an entry of the workspace root whose name  *)
(* starts with a dot is in the answer if and only if includeHidden was     *)
(* true.  Fails: the argument is never read; without ignore file a hidden  *)
(* file stays out when includeHidden is true, and with an ignore file a    *)
(* hidden file comes back when includeHidden is false.                     *)
(***************************************************************************)
C14_IncludeHiddenControls ==
    (ScanSucceeded /\ Len(scanResult.files) < maxFiles) =>
        \A n \in 1..Len(Ws.nodes) :
            ( /\ Ws.nodes[n].parent = RootNode(Ws)
              /\ Ws.nodes[n].type = "file"
              /\ StartsWith(Ws.nodes[n].name, ".") )
            => ( includeHidden
                   <=> \E k \in 1..Len(scanResult.files) :
                          scanResult.files[k].relativePath = Ws.nodes[n].name )

(***************************************************************************)
(* C15: whenever the setApiKey command has run for a user who had a new    *)
(* non-empty key to give, the key that getCachedApiKeySync returns is that *)
(* key (trimmed), whatever was cached or stored before.  Fails: with a key *)
(* in the environment, in the cache or in SecretStorage the command        *)
(* returns that key and never shows the input box.                         *)
(***************************************************************************)
C15_CommandSetsTheKey ==
    (keyPc = "idle" /\ keyCaller = "command" /\ Trim(wanted) # "")
        => getCachedApiKeySync = Trim(wanted)

\* some negation pattern of the rule set matches the entry
NegationMatches(patterns, e) ==
    \E i \in 1..Len(patterns) :
        /\ StartsWith(patterns[i], "!")
        /\ matchSinglePattern(e.relativePath, e.name,
                              SubSeq(patterns[i], 2, Len(patterns[i])))

(***************************************************************************)
(* C16: in ignore-file mode, if some negation pattern of the rule set      *)
(* matches the entry, shouldSkipFile returns false, whatever other         *)
(* patterns match and wherever they stand.  Fails: a pattern that matches  *)
(* and stands before the negation decides.                                 *)
(***************************************************************************)
C16_NegationWins ==
    (verdict # "none" /\ NegationMatches(rules, entry)) => verdict = "keep"

(***************************************************************************)
(* C17: all filter decisions of one read_file_structure call are made with *)
(* one rule set, and the call reads the ignore file at most once, also     *)
(* when a second call starts while the first is traversing and the ignore  *)
(* file was rewritten meanwhile.  Fails: the second call empties the       *)
(* module-level cache and the first call derives its rules anew.           *)
(***************************************************************************)
C17_OneRuleSetPerScan ==
    /\ Cardinality(rulesUsed) <= 1
    /\ ignoreReads <= 1

\* the depth-first pre-order of the entries S below directory d: an entry,
\* then all that is below it, then its next sibling; siblings as the
\* directory lists them.  k is the first node looked at.
RECURSIVE PreOrderFrom(_, _, _, _)
PreOrderFrom(w, S, d, k) ==
    IF k > Len(w.nodes) THEN << >>
    ELSE IF w.nodes[k].parent = d /\ k \in S
    THEN << k >> \o PreOrderFrom(w, S, k, 1) \o PreOrderFrom(w, S, d, k + 1)
    ELSE PreOrderFrom(w, S, d, k + 1)

\* the relative paths of the first n entries of that order
PreOrderPrefix(w, S, n) ==
    LET order == PreOrderFrom(w, S, RootNode(w), 1)
        cut == SubSeq(order, 1, IF n < Len(order) THEN n ELSE Len(order))
    IN  [i \in 1..Len(cut) |-> RelPathOf(w, cut[i])]

ReturnedPaths == { scanResult.files[k].relativePath : k \in 1..Len(scanResult.files) }

(***************************************************************************)
(* C18 as stated: the entries a scan with cap N returns are the first      *)
(* min(N, total) entries of the depth-first pre-order of the tree of       *)
(* entries that the filter does not exclude.  Fails on a tree with a       *)
(* symbolic link or a directory that cannot be listed: they stand in that  *)
(* order, the scan does not return the link or what is below the directory.*)
(***************************************************************************)
C18_AsStated ==
    (ScanSucceeded /\ maxFiles >= 0) =>
        LET prefix == PreOrderPrefix(Ws, NotExcludedEntries(Ws), maxFiles)
        IN  ReturnedPaths = { prefix[i] : i \in 1..Len(prefix) }

(***************************************************************************)
(* C18, amended: the accumulator of a scan with cap N >= 0 is the first    *)
(* min(N, total) entries of the depth-first pre-order of the files and     *)
(* directories that are not excluded, not beneath an excluded directory    *)
(* and not beneath a directory whose listing fails, and the answer holds   *)
(* these entries and no other: the cut is made in traversal order, not in  *)
(* the order of the final sort.                                            *)
(***************************************************************************)
C18_PreOrderPrefix ==
    (ScanSucceeded /\ maxFiles >= 0) =>
        LET prefix == PreOrderPrefix(Ws, ReachableEntries(Ws), maxFiles)
        IN  /\ [k \in 1..Len(files) |-> files[k].relativePath] = prefix
            /\ ReturnedPaths = { prefix[i] : i \in 1..Len(prefix) }
            /\ scanResult.fileCount = Len(prefix)

\* a scan that was cut returned a file and left out a directory, which the
\* sort would have put before the file
C18_Witness ==
    /\ ScanSucceeded
    /\ maxFiles >= 2
    /\ scanResult.fileCount = maxFiles
    /\ \E k \in 1..Len(scanResult.files) : scanResult.files[k].type = "file"
    /\ \E n \in ReachableEntries(Ws) :
          /\ Ws.nodes[n].type = "directory"
          /\ RelPathOf(Ws, n) \notin ReturnedPaths

(***************************************************************************)
(* C19: from the moment the accumulator of a running scan holds maxFiles   *)
(* entries, no scanDirectory call awaits a listing (not even one for a     *)
(* directory that was appended last), and every step of the scan leaves    *)
(* the accumulator as it is and either ends one scanDirectory call without *)
(* a filter check or returns the call with success and the entries         *)
(* collected.                                                              *)
(***************************************************************************)
C19_StopsAtCap ==
    [][ (scanPc = "running" /\ Len(files) >= maxFiles) =>
          /\ \A i \in 1..Len(stack) : stack[i].phase = "loop"
          /\ files' = files
          /\ \/ /\ scanPc' = "running"
                /\ Len(stack) > 0
                /\ stack' = SubSeq(stack, 1, Len(stack) - 1)
             \/ /\ scanPc' = "done"
                /\ stack = << >>
                /\ scanResult'.success
                /\ maxFiles >= 0 =>
                      /\ scanResult'.fileCount = Len(files)
                      /\ \A k \in 1..Len(files) :
                            \E r \in 1..Len(scanResult'.files) :
                                scanResult'.files[r] = files[k] ]_vars

\* a scan reached its cap with a directory that holds files, deep inside
\* the tree, and returned without the files of that directory
C19_Witness ==
    /\ ScanSucceeded
    /\ maxFiles >= 2
    /\ Len(files) = maxFiles
    /\ files[Len(files)].type = "directory"
    /\ Len(Split(files[Len(files)].relativePath)) >= 2
    /\ \E n \in ReachableEntries(Ws) :
          /\ StartsWith(RelPathOf(Ws, n), files[Len(files)].relativePath \o "/")
          /\ RelPathOf(Ws, n) \notin ReturnedPaths

\* the directories a traversal gets to and cannot list
FailingDirectories(w) ==
    { n \in ReachableEntries(w) : w.nodes[n].type = "directory" /\ ~w.nodes[n].listable }

(***************************************************************************)
(* C20: a scan of an open workspace succeeds also when the listing of a    *)
(* directory fails; if the cap did not cut the scan, the answer holds the  *)
(* entry of the failing directory, nothing below that directory, and every *)
(* sibling that the directory listing of its parent names after it and     *)
(* that the filter lets through.                                           *)
(***************************************************************************)
C20_FailedListingIsSkipped ==
    (scanPc = "done" /\ wsOpen) =>
        /\ scanResult.success
        /\ Len(scanResult.files) < maxFiles =>
              \A n \in FailingDirectories(Ws) :
                  /\ RelPathOf(Ws, n) \in ReturnedPaths
                  /\ \A q \in ReturnedPaths : ~StartsWith(q, RelPathOf(Ws, n) \o "/")
                  /\ \A m \in ReachableEntries(Ws) :
                        (Ws.nodes[m].parent = Ws.nodes[n].parent /\ m > n)
                            => RelPathOf(Ws, m) \in ReturnedPaths

\* a scan went past a directory it could not list and returned the entry
\* of the directory and the sibling after it
C20_Witness ==
    /\ ScanSucceeded
    /\ \E n \in FailingDirectories(Ws) :
          /\ RelPathOf(Ws, n) \in ReturnedPaths
          /\ \E c \in 1..Len(Ws.nodes) : Ws.nodes[c].parent = n
          /\ \E m \in ReachableEntries(Ws) :
                /\ Ws.nodes[m].parent = Ws.nodes[n].parent
                /\ m > n
                /\ RelPathOf(Ws, m) \in ReturnedPaths

\* the directories on the path of an entry, the entry itself included if it
\* is a directory
DirectorySegments(e) ==
    LET segs == Split(e.relativePath)
        n == IF e.type = "directory" THEN Len(segs) ELSE Len(segs) - 1
    IN  { segs[i] : i \in 1..n }

\* every pattern of the rule set is a plain pattern with a trailing slash
AllDirectoryOnly(patterns) ==
    \A i \in 1..Len(patterns) :
        EndsWith(patterns[i], "/") /\ ~StartsWith(patterns[i], "!")

(***************************************************************************)
(* C21: in ignore-file mode, with a rule set of patterns that end in "/",  *)
(* an entry is skipped if and only if one of the directories on its path   *)
(* (the entry itself, if it is a directory) has the name of a pattern: a   *)
(* regular file with that name, not below such a directory, is kept.       *)
(* Fails: the directory branch also tests fileName === dirPattern, and the *)
(* filter is not told what the entry is.                                   *)
(***************************************************************************)
C21_DirectoryOnly ==
    (verdict # "none" /\ AllDirectoryOnly(rules)) =>
        ( verdict = "skip"
            <=> \E i \in 1..Len(rules) :
                   SubSeq(rules[i], 1, Len(rules[i]) - 1) \in DirectorySegments(entry) )

\* the pattern holds a wildcard character
HasWildcard(pattern) == Includes(pattern, "*") \/ Includes(pattern, "?")

(***************************************************************************)
(* C22: in ignore-file mode, if the first pattern of the rule set is not a *)
(* negation, holds "*" or "?" and, read as a wildcard expression ("*" any  *)
(* run of characters, "?" one character) anchored at path segments,        *)
(* matches the relative path or the name of the entry, the entry is        *)
(* skipped.  Fails for a pattern with "?" and without "*": it is compared  *)
(* as plain text.                                                          *)
(***************************************************************************)
C22_WildcardsMatch ==
    ( /\ verdict # "none"
      /\ ~StartsWith(rules[1], "!")
      /\ ~EndsWith(rules[1], "/")
      /\ HasWildcard(rules[1])
      /\ \/ RegexTestAnchored(rules[1], entry.relativePath)
         \/ RegexTestAnchored(rules[1], entry.name) )
    => verdict = "skip"

(***************************************************************************)
(* C23: in built-in mode, of a scan that the cap did not cut, a file of    *)
(* the workspace root whose name starts with a dot is in the answer if and *)
(* only if its name starts with .env, .gitignore, .eslintrc, .prettierrc   *)
(* or .editorconfig.  Fails: .env is itself a built-in pattern, and        *)
(* .gitignore contains the built-in pattern .git.                          *)
(***************************************************************************)
C23_DotfileAllowList ==
    (ScanSucceeded /\ NoIgnorePatterns /\ Len(scanResult.files) < maxFiles) =>
        \A n \in 1..Len(Ws.nodes) :
            ( /\ Ws.nodes[n].parent = RootNode(Ws)
              /\ Ws.nodes[n].type = "file"
              /\ StartsWith(Ws.nodes[n].name, ".") )
            => ( Ws.nodes[n].name \in ReturnedPaths <=> AllowedDotfile(Ws.nodes[n].name) )

\* the directories among the entries collected
DirectoriesAppended == CountIn(files, LAMBDA e : e.type = "directory")

\* no entry collected and no directory entered is a symbolic link
NoLinkFollowed ==
    /\ \A k \in 1..Len(files) :
          \A n \in 1..Len(Ws.nodes) :
              (IsBelow(Ws.nodes, n, RootNode(Ws)) /\ RelPathOf(Ws, n) = files[k].relativePath)
                  => Ws.nodes[n].type # "symlink"
    /\ \A i \in 1..Len(stack) :
          LET n == NodeAt(Ws.nodes, stack[i].dirPath)
          IN  n > 0 /\ Ws.nodes[n].type = "directory"

(***************************************************************************)
(* C24: every read_file_structure call whose directory listings are        *)
(* answered comes to its end; it never enters a symbolic link, and it asks *)
(* for at most one listing per directory it collected, plus one for the    *)
(* root: at most maxFiles + 1 listings.                                    *)
(***************************************************************************)
C24_ScanTerminates ==
    /\ [](NoLinkFollowed
            /\ listings <= DirectoriesAppended + 1
            /\ listings <= maxFiles + 1)
    /\ (scanPc = "running" ~> scanPc = "done")

\* a scan went past a symbolic link, listed more than one directory and
\* came to its end
C24_Witness ==
    /\ ScanSucceeded
    /\ listings >= 3
    /\ \E n \in NotExcludedEntries(Ws) :
          /\ Ws.nodes[n].type = "symlink"
          /\ \E m \in ReachableEntries(Ws) :
                /\ Ws.nodes[m].parent = Ws.nodes[n].parent
                /\ m > n
                /\ RelPathOf(Ws, m) \in ReturnedPaths

(***************************************************************************)
(* C25: once a read_file_code call has answered, every path whose content  *)
(* was read is reported as a success that carries this content, whatever   *)
(* happened to the file around the read.  Fails: when the file is gone at  *)
(* the size stat that follows the read, the content is dropped and the     *)
(* path is reported as failed.                                             *)
(***************************************************************************)
C25_ReadContentIsReported ==
    ReadFinished =>
        \A i \in 1..Len(jobs) :
            jobs[i].content # 0 =>
                /\ jobs[i].result.success
                /\ jobs[i].result.content = jobs[i].content

\* the ignore file of the workspace can be read and holds a pattern
IgnoreFileInUse == Len(parseGitignoreFile(Ws, rootPath)) > 0

(***************************************************************************)
(* C26: the usingGitignore flag of a successful read_file_structure result *)
(* with maxFiles >= 0 tells the filter mode of this call: it is true       *)
(* exactly when the ignore file of the workspace is readable and holds a   *)
(* pattern.  Fails: a call that never asks for the patterns (maxFiles = 0) *)
(* reports the flag as it was left before the call.                        *)
(***************************************************************************)
C26_FlagOfThisCall ==
    (ScanSucceeded /\ maxFiles >= 0) =>
        (scanResult.usingGitignore <=> IgnoreFileInUse)

(***************************************************************************)
(* C27: in both filter modes a scan result holds neither the directory     *)
(* .git of the workspace root nor an entry below it.  Fails: in            *)
(* ignore-file mode only the patterns of the ignore file exclude, so an    *)
(* ignore file that does not name .git lets it through.                    *)
(***************************************************************************)
C27_GitDirectoryExcluded ==
    ScanSucceeded =>
        \A p \in ReturnedPaths : p # ".git" /\ ~StartsWith(p, ".git/")

\* the requested paths at the positions that satisfy Test, in request order
RequestedWhere(Test(_)) ==
    LET at == SelectSeq([i \in 1..Len(jobs) |-> i], Test)
    IN  [k \in 1..Len(at) |-> filePaths[at[k]]]

\* the paths a list of the report names, in the order of the list
PathsOf(list) == [k \in 1..Len(list) |-> list[k].filePath]

(***************************************************************************)
(* C30: the report of a read_file_code call lists the files it read in the *)
(* order in which their paths were requested, and the files that failed    *)
(* likewise, in whatever order the processFile calls returned.             *)
(***************************************************************************)
C30_ReportInRequestOrder ==
    (ReadFinished /\ readResult.success) =>
        /\ PathsOf(readResult.content.read)
              = RequestedWhere(LAMBDA i : /\ jobs[i].result.success
                                          /\ byteLength(jobs[i].content)
                                                <= maxFileSize * BytesPerKB)
        /\ PathsOf(readResult.content.failed)
              = RequestedWhere(LAMBDA i : ~jobs[i].result.success)

\* two different files were read, the second requested returned first
C30_Witness ==
    /\ ReadFinished
    /\ readResult.success
    /\ settled = << 2, 1 >>
    /\ filePaths[1] # filePaths[2]
    /\ Len(readResult.content.read) = 2

\* two different paths failed, the second requested returned first
C30_FailedWitness ==
    /\ ReadFinished
    /\ readResult.success
    /\ settled = << 2, 1 >>
    /\ filePaths[1] # filePaths[2]
    /\ Len(readResult.content.failed) = 2

(***************************************************************************)
(* C28: in the chat message list every assistant message comes after the   *)
(* user message it answers, so that after a clearing the list holds no     *)
(* reply to a user message that was cleared.  Fails: a clearing while      *)
(* getAIResponse is awaited empties the list, and the reply is pushed to   *)
(* the emptied list when the analysis ends.                                *)
(***************************************************************************)
C28_RepliesFollowTheirMessage ==
    \A k \in 1..Len(messages) :
        messages[k].role = "assistant" =>
            \E j \in 1..(k - 1) :
                /\ messages[j].role = "user"
                /\ messages[j].call = messages[k].call

\* the place of the k-th message posted to the webview is followed by a
\* hideTyping
HiddenAfter(k) == \E j \in (k + 1)..Len(posted) : posted[j] = "hideTyping"

\* the most messages the webview is posted in a behaviour
MaxPosted == 3 * MaxSends + MaxClears

\* the assistant messages of call c in a message list
Replies(list, c) ==
    Cardinality({ k \in 1..Len(list) : list[k].role = "assistant" /\ list[k].call = c })

\* this step is the end of call c
EndsNow(c) ==
    /\ calls'[c].pc = "done"
    /\ c > Len(calls) \/ calls[c].pc = "await"

\* this step handles a sendMessage with a blank text
BlankHandled ==
    /\ Len(received') > Len(received)
    /\ Trim(received'[Len(received')]) = ""

(***************************************************************************)
(* C29: every showTyping posted to the webview is followed by a hideTyping *)
(* once the analysis call has come to its end, by return or by throw; the  *)
(* step that ends the handling of a message that is not blank appends one  *)
(* assistant message for it, and no other step appends one; a blank        *)
(* message changes nothing.                                                *)
(***************************************************************************)
C29_TypingEndsAndOneReply ==
    /\ \A k \in 1..MaxPosted :
          (Len(posted) >= k /\ posted[k] = "showTyping") ~> HiddenAfter(k)
    /\ [][ /\ \A c \in 1..Len(calls') :
                 IF EndsNow(c)
                 THEN Replies(messages', c) = Replies(messages, c) + 1
                 ELSE Replies(messages', c) <= Replies(messages, c)
           /\ BlankHandled => UNCHANGED << messages, calls, posted, view, clears >>
         ]_vars

\* a blank message was handled, then a message whose analysis threw: the
\* indicator was shown and hidden, and the list holds the one reply
C29_Witness ==
    /\ Len(received) = 2
    /\ Trim(received[1]) = ""
    /\ Len(calls) = 1
    /\ calls[1].pc = "done"
    /\ \E k \in 1..Len(posted) : posted[k] = "showTyping" /\ HiddenAfter(k)
    /\ clears = 0
    /\ Replies(messages, 1) = 1
    /\ messages[2].content = ErrorText(ErrorPool[1])

====
